---------------------------- MODULE Spec2Model ----------------------------
(***************************************************************************)
(* Model of backend/src/controllers/productController.js: the product      *)
(* controller of an Express application.  The five handlers (addProduct,   *)
(* getProducts, deleteProduct, getProductById, updateProduct) work on the  *)
(* in-memory Map `products`, on the Map `users`, on the identity service   *)
(* reached by fetch, and on the upload directory written by multer.        *)
(*                                                                         *)
(* The three async handlers suspend at `await fetch(...)` and at           *)
(* `await whoamiResponse.json()`; between two awaits a handler runs on the *)
(* single JavaScript thread without interruption.  `running` is the        *)
(* request that holds that thread.                                         *)
(***************************************************************************)
EXTENDS Integers, Sequences, FiniteSets, TLC

(***************************************************************************)
(* Bounds of the model.                                                    *)
(***************************************************************************)
MaxOps == 4      \* requests issued to the three async handlers in one run
MaxClock == 1    \* last value of Date.now() (the clock starts at 0)

Slots == {"r1", "r2"}          \* requests that can be in flight together
NoReq == "none"

(***************************************************************************)
(* JavaScript values that reach the controller: undefined, numbers,        *)
(* strings (sequences of characters) and NaN.                              *)
(***************************************************************************)
Undefined == <<"undefined">>
NaN == <<"NaN">>
Num(n) == <<"number", n>>
Str(s) == <<"string", s>>

IsNum(v) == v[1] = "number"

\* ToBoolean, as used by `!x` and `if (x)`.
Truthy(v) ==
    CASE v[1] = "undefined" -> FALSE
      [] v[1] = "NaN" -> FALSE
      [] v[1] = "number" -> v[2] # 0
      [] v[1] = "string" -> Len(v[2]) > 0
      [] OTHER -> TRUE

WhiteSpace == {" "}
DigitChars == <<"0", "1", "2", "3", "4", "5", "6", "7", "8", "9",
                "a", "b", "c", "d", "e", "f">>
DigitVal(c) == (CHOOSE i \in 1..16 : DigitChars[i] = c) - 1
IsDigit(c, radix) == \E i \in 1..radix : DigitChars[i] = c

RECURSIVE TrimLeft(_)
TrimLeft(s) ==
    IF s # <<>> /\ Head(s) \in WhiteSpace THEN TrimLeft(Tail(s)) ELSE s

RECURSIVE TrimRight(_)
TrimRight(s) ==
    IF s # <<>> /\ s[Len(s)] \in WhiteSpace
    THEN TrimRight(SubSeq(s, 1, Len(s) - 1))
    ELSE s

\* The longest prefix of s made of digits of the radix.
RECURSIVE DigitPrefix(_, _)
DigitPrefix(s, radix) ==
    IF s # <<>> /\ IsDigit(Head(s), radix)
    THEN <<Head(s)>> \o DigitPrefix(Tail(s), radix)
    ELSE <<>>

RECURSIVE DigitsValue(_, _, _)
DigitsValue(s, radix, acc) ==
    IF s = <<>> THEN acc
    ELSE DigitsValue(Tail(s), radix, acc * radix + DigitVal(Head(s)))

HasSign(s) == s # <<>> /\ Head(s) \in {"+", "-"}
HasHexPrefix(s) == Len(s) >= 2 /\ s[1] = "0" /\ s[2] \in {"x", "X"}

\* parseInt(string) with no radix argument.
parseInt(s) ==
    LET t == TrimLeft(s)
        sign == IF t # <<>> /\ Head(t) = "-" THEN -1 ELSE 1
        u == IF HasSign(t) THEN Tail(t) ELSE t
        radix == IF HasHexPrefix(u) THEN 16 ELSE 10
        w == IF HasHexPrefix(u) THEN SubSeq(u, 3, Len(u)) ELSE u
        d == DigitPrefix(w, radix)
    IN  IF d = <<>> THEN NaN ELSE Num(sign * DigitsValue(d, radix, 0))

\* Number(value): numbers are kept, undefined is NaN, a string is converted
\* as a whole (StringToNumber, restricted to integer literals).
Number(v) ==
    CASE v[1] = "number" -> v
      [] v[1] = "string" ->
            LET t == TrimRight(TrimLeft(v[2]))
                sign == IF t # <<>> /\ Head(t) = "-" THEN -1 ELSE 1
                u == IF HasSign(t) THEN Tail(t) ELSE t
            IN  IF t = <<>> THEN Num(0)
                ELSE IF HasHexPrefix(t)
                THEN LET w == SubSeq(t, 3, Len(t))
                     IN  IF w # <<>> /\ DigitPrefix(w, 16) = w
                         THEN Num(DigitsValue(w, 16, 0))
                         ELSE NaN
                ELSE IF u # <<>> /\ DigitPrefix(u, 10) = u
                THEN Num(sign * DigitsValue(u, 10, 0))
                ELSE NaN
      [] OTHER -> NaN

\* String(n) for an integer n >= 0: its decimal digits.
RECURSIVE Decimal(_)
Decimal(n) ==
    IF n < 10 THEN <<DigitChars[n + 1]>>
    ELSE Decimal(n \div 10) \o <<DigitChars[(n % 10) + 1]>>

(***************************************************************************)
(* Buffer.toString('base64'): a sequence of bytes becomes a sequence of    *)
(* base64 symbols, written here as their indices 0..63 in the base64       *)
(* alphabet, and 64 for the padding character '='.                         *)
(***************************************************************************)
RECURSIVE Base64(_)
Base64(b) ==
    IF Len(b) = 0 THEN <<>>
    ELSE IF Len(b) = 1
    THEN <<b[1] \div 4, (b[1] % 4) * 16, 64, 64>>
    ELSE IF Len(b) = 2
    THEN <<b[1] \div 4, (b[1] % 4) * 16 + (b[2] \div 16), (b[2] % 16) * 4, 64>>
    ELSE <<b[1] \div 4, (b[1] % 4) * 16 + (b[2] \div 16),
           (b[2] % 16) * 4 + (b[3] \div 64), b[3] % 64>>
         \o Base64(SubSeq(b, 4, Len(b)))


(***************************************************************************)
(* Inputs of the requests.  Spec, the specification of the whole           *)
(* controller, draws req.body from a few values of each field (absent,     *)
(* empty or zero, and ordinary values); SpecUpdate, which looks at         *)
(* updateProduct alone, draws it from every combination below.             *)
(***************************************************************************)
NameVals == {Undefined, Str(<<>>), Str(<<"W">>), Str(<<"G">>)}
DescriptionVals == {Undefined, Str(<<>>), Str(<<"d">>), Str(<<"e">>)}
PriceVals == {Undefined, Num(0), Num(10), Num(20), Str(<<"0">>)}
QuantityVals == {Undefined, Num(0), Num(5), Num(6)}
ProductIdVals ==
    {Undefined, Num(0), Num(1), Num(2), Num(9999), Str(<<>>), Str(<<"a">>),
     Str(<<"1">>), Str(<<" ", "2">>), Str(<<"1", "a">>), Str(<<"0", "x", "1">>)}

AllUpdateBodies ==
    [productId : ProductIdVals, name : NameVals, description : DescriptionVals,
     price : PriceVals, quantity : QuantityVals]

AddBodies ==
    [name : {Undefined, Str(<<"W">>)}, description : {Str(<<"d">>)},
     price : {Num(10)}, quantity : {Num(5)}]
UpdateBodies ==
    [productId : {Num(1), Num(2), Str(<<"1">>)},
     name : {Undefined, Str(<<"G">>)}, description : {Undefined},
     price : {Undefined}, quantity : {Undefined}]
DeleteBodies ==
    [productId : {Undefined, Num(1), Num(2), Num(9999), Str(<<"1">>)}]

\* Uploaded files: the extension of the original name and the bytes.
Exts == {".png"}
FileContents == {<<77>>, <<255, 216>>}
NoFile == <<"nofile">>                      \* req.file is undefined
NoUpload == [ext |-> "", bytes |-> <<>>]    \* the request carries no file
Uploads == [ext : Exts, bytes : FileContents]

\* The id path parameter of GET /products/:id.
PathChars == {"1", "2", "0", "a", "x", "-", " "}
PathParams ==
    {<<c>> : c \in PathChars} \cup {<<c, d>> : c \in PathChars, d \in PathChars}
        \cup {<<"a", "b", "c">>, <<"1", "2", "a">>, <<"0", "x", "1">>,
              <<"9", "9", "9", "9">>}

(***************************************************************************)
(* dataStore.users: token -> user.  A token the map does not hold gives    *)
(* undefined.                                                              *)
(***************************************************************************)
Tokens == {"admin", "customer", "unknown"}
users ==
    [t \in {"admin", "customer"} |-> [admin |-> t = "admin"]]
HasUser(t) == t \in DOMAIN users

\* What the identity service answers: fetch rejects, or resolves with a status;
\* json() rejects, or resolves with a token.
FetchOutcomes == {"reject", "200", "401"}
JsonOutcomes == {"reject"} \cup Tokens

VARIABLES
    products,   \* dataStore.products: id -> product record
    files,      \* the upload directory: path -> bytes
    now,        \* Date.now()
    req,        \* the requests in flight, one per slot
    running,    \* the request that holds the JavaScript thread, or NoReq
    nops,       \* requests issued so far
    last        \* the response sent by the latest step, if it sent one

vars == <<products, files, now, req, running, nops, last>>

\* A slot: the handler and where it stands, req.file (the path multer stored
\* the upload under) and the bytes the client sent, and, once addProduct has
\* read them, newProductId and req.body.
Idle == [kind |-> "none", pc |-> "idle", file |-> NoFile, sent |-> <<>>,
         newProductId |-> 0, body |-> Undefined]

\* `last` describes the request answered by the latest step: the handler, what
\* the identity service told it, the req.body and req.file it read, the status
\* and the body of the response.
NoEvent == [op |-> "none", auth |-> "", status |-> 0, body |-> Undefined,
            file |-> NoFile, sent |-> <<>>, out |-> Undefined]

Response(op, auth, status, body, file, sent, out) ==
    [op |-> op, auth |-> auth, status |-> status, body |-> body, file |-> file,
     sent |-> sent, out |-> out]

\* multer's diskStorage: destination and filename of an upload.
StoredFilename(t, ext) == <<t, ext>>
UploadPath(filename) == <<"src/uploads/">> \o filename

\* products.get(key): the keys of the map are the numbers addProduct put, so
\* a string, undefined or NaN finds nothing.
ProductsHas(store, key) == IsNum(key) /\ key[2] \in DOMAIN store
ProductsGet(store, key) == store[key[2]]

\* products.set(id, product)
ProductsSet(store, id, product) ==
    [k \in DOMAIN store \cup {id} |-> IF k = id THEN product ELSE store[k]]

ProductsDeleteAll(store, key) == <<>>

\* products.delete(key)
ProductsDelete(store, key) ==
    IF IsNum(key) THEN [k \in DOMAIN store \ {key[2]} |-> store[k]] ELSE store

\* fs.unlinkSync(path) on a file that exists.
Unlink(fs, path) == [p \in DOMAIN fs \ {path} |-> fs[p]]

\* multer writes the upload, replacing a file of the same name.
WriteFile(fs, path, bytes) ==
    [p \in DOMAIN fs \cup {path} |-> IF p = path THEN bytes ELSE fs[p]]

Init ==
    /\ products = <<>>
    /\ files = <<>>
    /\ now = 0
    /\ req = [r \in Slots |-> Idle]
    /\ running = NoReq
    /\ nops = 0
    /\ last = NoEvent

\* Date.now() advances.
Tick ==
    /\ now < MaxClock
    /\ now' = now + 1
    /\ last' = NoEvent
    /\ UNCHANGED <<products, files, req, running, nops>>

(***************************************************************************)
(* A request reaches one of the async handlers.  multer has stored the     *)
(* uploaded file, if there is one, and the handler runs up to its first    *)
(* await, the fetch of /whoami.                                            *)
(***************************************************************************)
Arrive(r, kind, upload) ==
    /\ running = NoReq
    /\ req[r].pc = "idle"
    /\ r = "r2" => req["r1"].pc # "idle"     \* a request takes the first free slot
    /\ nops < MaxOps
    /\ kind = "delete" => upload = NoUpload
    /\ LET path == UploadPath(StoredFilename(now, upload.ext))
       IN  IF upload = NoUpload
           THEN /\ files' = files
                /\ req' = [req EXCEPT ![r] = [Idle EXCEPT !.kind = kind,
                                                          !.pc = "fetch"]]
           ELSE /\ files' = WriteFile(files, path, upload.bytes)
                /\ req' = [req EXCEPT ![r] = [Idle EXCEPT !.kind = kind,
                                                          !.pc = "fetch",
                                                          !.file = path,
                                                          !.sent = upload.bytes]]
    /\ nops' = nops + 1
    /\ last' = NoEvent
    /\ UNCHANGED <<products, now, running>>

\* The handler leaves: its response is sent and its slot is free again.
Finish(r, auth, status, body, out) ==
    /\ req' = [req EXCEPT ![r] = Idle]
    /\ last' = Response(req[r].kind, auth, status, body, req[r].file,
                         req[r].sent, out)

\* `await fetch(...)` settles: a rejection is caught (500), a status other
\* than 200 gives 401, and 200 leads to `await whoamiResponse.json()`.
FetchSettles(r, outcome) ==
    /\ running = NoReq
    /\ req[r].pc = "fetch"
    /\ IF outcome = "reject"
       THEN Finish(r, outcome, 500, Undefined, Undefined)
       ELSE IF outcome # "200"
       THEN Finish(r, outcome, 401, Undefined, Undefined)
       ELSE /\ req' = [req EXCEPT ![r].pc = "json"]
            /\ last' = NoEvent
    /\ UNCHANGED <<products, files, now, running, nops>>

\* The outcome of the steps shared by the three handlers after json():
\* 0 when the handler goes on, or the status it returns.
GateWithoutAdminCheck(outcome) ==
    IF outcome = "reject" THEN 500
    ELSE IF ~HasUser(outcome) THEN 500
    ELSE 0

Gate(outcome) ==
    IF outcome = "reject" THEN 500
    ELSE IF ~HasUser(outcome) THEN 500        \* user.isAdmin() throws
    ELSE IF ~users[outcome].admin THEN 403
    ELSE 0


(***************************************************************************)
(* addProduct, from the settling of json() to the read of products.size.   *)
(***************************************************************************)
\* The request that holds the thread once addProduct has read products.size:
\* no await stands between that read and products.set.
HolderAfterAwait(r) == NoReq     \* as if an await stood before products.set

Holder(r) == r

AddProductValid(body, image) ==
    /\ Truthy(body.name)
    /\ Truthy(body.description)
    /\ Truthy(body.price)
    /\ Truthy(body.quantity)
    /\ image # NoFile

NewProductId(store) == Cardinality(DOMAIN store) + 1

NewProduct(id, body, image) ==
    [id |-> id, name |-> body.name, description |-> body.description,
     price |-> body.price, quantity |-> body.quantity, imageUrl |-> image]

AddProduct(r, outcome, bodies) ==
    /\ running = NoReq
    /\ req[r].pc = "json"
    /\ req[r].kind = "add"
    /\ IF Gate(outcome) # 0
       THEN /\ Finish(r, outcome, Gate(outcome), Undefined, Undefined)
            /\ UNCHANGED running
       ELSE \E body \in bodies :
              IF ~AddProductValid(body, req[r].file)
              THEN /\ Finish(r, outcome, 400, body, Undefined)
                   /\ UNCHANGED running
              ELSE /\ req' = [req EXCEPT ![r].pc = "set",
                                         ![r].newProductId = NewProductId(products),
                                         ![r].body = body]
                   /\ running' = Holder(r)
                   /\ last' = NoEvent
    /\ UNCHANGED <<products, files, now, nops>>

\* products.set(newProductId, newProduct) and the 201 response.
AddProductSet(r) ==
    /\ running = Holder(r)
    /\ req[r].pc = "set"
    /\ LET newProduct == NewProduct(req[r].newProductId, req[r].body, req[r].file)
       IN  /\ products' = ProductsSet(products, req[r].newProductId, newProduct)
           /\ Finish(r, "admin", 201, req[r].body, newProduct)
    /\ running' = NoReq
    /\ UNCHANGED <<files, now, nops>>

(***************************************************************************)
(* deleteProduct, from the settling of json() to its response.             *)
(***************************************************************************)
DeleteStatusWithoutLookup(store, productId) ==
    IF ~Truthy(productId) THEN 400 ELSE 200

\* The two checks of deleteProduct on req.body.productId.
DeleteStatus(store, productId) ==
    IF ~Truthy(productId) THEN 400
    ELSE IF ~ProductsHas(store, productId) THEN 404
    ELSE 200

DeleteProduct(r, outcome, bodies) ==
    /\ running = NoReq
    /\ req[r].pc = "json"
    /\ req[r].kind = "delete"
    /\ IF Gate(outcome) # 0
       THEN /\ Finish(r, outcome, Gate(outcome), Undefined, Undefined)
            /\ UNCHANGED products
       ELSE \E body \in bodies :
              IF DeleteStatus(products, body.productId) # 200
              THEN /\ Finish(r, outcome, DeleteStatus(products, body.productId),
                             body, Undefined)
                   /\ UNCHANGED products
              ELSE /\ products' = ProductsDelete(products, body.productId)
                   /\ Finish(r, outcome, 200, body, Undefined)
    /\ UNCHANGED <<files, now, running, nops>>

(***************************************************************************)
(* updateProduct, from the settling of json() to its response.             *)
(***************************************************************************)
UpdateFieldsWhenDefined(product, body) ==
    [product EXCEPT
        !.name = IF body.name # Undefined THEN body.name ELSE @,
        !.description = IF body.description # Undefined THEN body.description ELSE @,
        !.price = IF body.price # Undefined THEN body.price ELSE @,
        !.quantity = IF body.quantity # Undefined THEN body.quantity ELSE @]

\* The four `if (req.body.x) product.x = req.body.x` statements.
UpdateFields(product, body) ==
    [product EXCEPT
        !.name = IF Truthy(body.name) THEN body.name ELSE @,
        !.description = IF Truthy(body.description) THEN body.description ELSE @,
        !.price = IF Truthy(body.price) THEN body.price ELSE @,
        !.quantity = IF Truthy(body.quantity) THEN body.quantity ELSE @]

UpdateProduct(r, outcome, bodies) ==
    /\ running = NoReq
    /\ req[r].pc = "json"
    /\ req[r].kind = "update"
    /\ IF Gate(outcome) # 0
       THEN /\ Finish(r, outcome, Gate(outcome), Undefined, Undefined)
            /\ UNCHANGED <<products, files>>
       ELSE \E body \in bodies :
              LET key == Number(body.productId)
                  product == ProductsGet(products, key)
                  updated == UpdateFields(product, body)
              IN  IF ~ProductsHas(products, key)
                  THEN /\ Finish(r, outcome, 404, body, Undefined)
                       /\ UNCHANGED <<products, files>>
                  ELSE IF req[r].file = NoFile
                  THEN /\ products' = ProductsSet(products, key[2], updated)
                       /\ Finish(r, outcome, 200, body, updated)
                       /\ UNCHANGED files
                  ELSE IF product.imageUrl \notin DOMAIN files
                  THEN \* fs.unlinkSync throws; the fields are already written
                       /\ products' = ProductsSet(products, key[2], updated)
                       /\ Finish(r, outcome, 500, body, Undefined)
                       /\ UNCHANGED files
                  ELSE /\ files' = Unlink(files, product.imageUrl)
                       /\ products' = ProductsSet(products, key[2],
                                         [updated EXCEPT !.imageUrl = req[r].file])
                       /\ Finish(r, outcome, 200, body,
                                 [updated EXCEPT !.imageUrl = req[r].file])
    /\ UNCHANGED <<now, running, nops>>

(***************************************************************************)
(* The two synchronous handlers.  fs.readFileSync throws when the file is  *)
(* missing; nothing catches it, and Express answers 500.                   *)
(***************************************************************************)
WithImage(product, fs) ==
    [id |-> product.id, name |-> product.name,
     description |-> product.description, price |-> product.price,
     quantity |-> product.quantity, imageUrl |-> product.imageUrl,
     image |-> Base64(fs[product.imageUrl])]

GetProductByIdResponse(store, fs, idParam) ==
    LET productId == parseInt(idParam)
        product == ProductsGet(store, productId)
    IN  IF productId = NaN THEN [status |-> 400, out |-> Undefined]
        ELSE IF ~ProductsHas(store, productId)
        THEN [status |-> 404, out |-> Undefined]
        ELSE IF product.imageUrl \notin DOMAIN fs
        THEN [status |-> 500, out |-> Undefined]
        ELSE [status |-> 200, out |-> WithImage(product, fs)]

GetProductsResponse(store, fs) ==
    IF \E k \in DOMAIN store : store[k].imageUrl \notin DOMAIN fs
    THEN [status |-> 500, out |-> Undefined]
    ELSE [status |-> 200, out |-> [k \in DOMAIN store |-> WithImage(store[k], fs)]]

GetProductById(idParam) ==
    /\ running = NoReq
    /\ LET res == GetProductByIdResponse(products, files, idParam)
       IN  last' = Response("getProductById", "", res.status, Str(idParam),
                            NoFile, <<>>, res.out)
    /\ UNCHANGED <<products, files, now, req, running, nops>>

GetProducts ==
    /\ running = NoReq
    /\ LET res == GetProductsResponse(products, files)
       IN  last' = Response("getProducts", "", res.status, Undefined,
                            NoFile, <<>>, res.out)
    /\ UNCHANGED <<products, files, now, req, running, nops>>

Next ==
    \/ Tick
    \/ \E r \in Slots, kind \in {"add", "update", "delete"},
          upload \in Uploads \cup {NoUpload} : Arrive(r, kind, upload)
    \/ \E r \in Slots, outcome \in FetchOutcomes : FetchSettles(r, outcome)
    \/ \E r \in Slots, outcome \in JsonOutcomes : AddProduct(r, outcome, AddBodies)
    \/ \E r \in Slots : AddProductSet(r)
    \/ \E r \in Slots, outcome \in JsonOutcomes : DeleteProduct(r, outcome, DeleteBodies)
    \/ \E r \in Slots, outcome \in JsonOutcomes : UpdateProduct(r, outcome, UpdateBodies)

Spec == Init /\ [][Next]_vars

(***************************************************************************)
(* SpecRead: the two synchronous handlers, getProductById and getProducts, *)
(* applied to stores and upload directories the controller reaches: no,    *)
(* one or two products, which share the file of one upload, that file      *)
(* present or already unlinked.                                            *)
(***************************************************************************)
FirstPath == UploadPath(StoredFilename(0, ".png"))
ValidAddBodies == {b \in AddBodies : AddProductValid(b, FirstPath)}

InitRead ==
    /\ \E ids \in SUBSET {1, 2} : \E b \in ValidAddBodies :
          products = [k \in ids |-> NewProduct(k, b, FirstPath)]
    /\ \E fs \in {<<>>} \cup {[p \in {FirstPath} |-> c] : c \in FileContents} :
          files = fs
    /\ now = 0
    /\ req = [r \in Slots |-> Idle]
    /\ running = NoReq
    /\ nops = 0
    /\ last = NoEvent

NextRead ==
    \/ \E idParam \in PathParams : GetProductById(idParam)
    \/ GetProducts

SpecRead == InitRead /\ [][NextRead]_vars

(***************************************************************************)
(* SpecUpdate: updateProduct applied, with every request body of           *)
(* AllUpdateBodies and with or without a new file, to a store of two       *)
(* products whose first product has any of the values addProduct accepts,  *)
(* its image file present or already unlinked.                             *)
(***************************************************************************)
SecondPath == UploadPath(StoredFilename(1, ".png"))
StoredBodies ==
    {b \in [name : NameVals, description : DescriptionVals, price : PriceVals,
            quantity : QuantityVals] : AddProductValid(b, FirstPath)}

InitUpdate ==
    /\ \E b \in StoredBodies : \E c \in ValidAddBodies :
          products = <<NewProduct(1, b, FirstPath), NewProduct(2, c, FirstPath)>>
    /\ \E fs \in {[p \in {SecondPath} |-> <<77>>],
                  [p \in {FirstPath, SecondPath} |-> <<77>>]} : files = fs
    /\ now = 1
    /\ \E f \in {NoFile, SecondPath} :
          req = [r \in Slots |->
                   IF r = "r1"
                   THEN [Idle EXCEPT !.kind = "update", !.pc = "json", !.file = f,
                                     !.sent = IF f = NoFile THEN <<>> ELSE <<77>>]
                   ELSE Idle]
    /\ running = NoReq
    /\ nops = MaxOps
    /\ last = NoEvent

NextUpdate ==
    \E r \in Slots, outcome \in JsonOutcomes :
        UpdateProduct(r, outcome, AllUpdateBodies)

SpecUpdate == InitUpdate /\ [][NextUpdate]_vars


(***************************************************************************)
(*                              Properties                                 *)
(***************************************************************************)
Mutating == {"add", "update", "delete"}
Fields == {"name", "description", "price", "quantity"}
Size(store) == Cardinality(DOMAIN store)
PathOf(id) == Decimal(id)      \* the path parameter that names product id

\* A decimal integer literal: an optional sign and one or more digits.
IsIntegerLiteral(s) ==
    LET u == IF HasSign(s) THEN Tail(s) ELSE s
    IN  u # <<>> /\ \A i \in 1..Len(u) : IsDigit(u[i], 10)
IntegerOf(s) ==
    LET u == IF HasSign(s) THEN Tail(s) ELSE s
    IN  (IF Head(s) = "-" THEN -1 ELSE 1) * DigitsValue(u, 10, 0)

\* C1.  Whenever addProduct, updateProduct or deleteProduct answers: if the
\* identity service answered with a status other than 200 the response is
\* 401, if the token names a user who is not admin the response is 403, and
\* a 401 or 403 response leaves the products map as it was.
C1_AuthGate ==
    [][last'.op \in Mutating =>
        /\ last'.auth \in FetchOutcomes \ {"reject", "200"} => last'.status = 401
        /\ (last'.auth \in DOMAIN users /\ ~users[last'.auth].admin)
              => last'.status = 403
        /\ last'.status \in {401, 403} => products' = products]_vars

\* C1, witness: a request carrying a file was refused with 401 or 403 while
\* the store held products.
C1_Witness ==
    /\ last.op \in Mutating
    /\ last.status \in {401, 403}
    /\ last.file # NoFile
    /\ DOMAIN products # {}

\* C2.  Whenever addProduct answers an admin whose request had the four fields
\* and an image: the status is 201, the returned record has the submitted
\* values, and getProductById on the returned id, called on the state the
\* response leaves, answers 200 with these values and the base64 of the bytes
\* that were uploaded.
C2_AddThenGet ==
    [][(/\ last'.op = "add"
        /\ last'.auth = "admin"
        /\ AddProductValid(last'.body, last'.file))
       => /\ last'.status = 201
          /\ \A f \in Fields : last'.out[f] = last'.body[f]
          /\ LET got == GetProductByIdResponse(products', files',
                                               PathOf(last'.out.id))
             IN  /\ got.status = 200
                 /\ \A f \in Fields : got.out[f] = last'.body[f]
                 /\ got.out.image = Base64(last'.sent)]_vars

\* C3.  Whenever addProduct answers 201, the id it assigned was held by no
\* product of the store and the store has grown by one record; and a product
\* leaves the store only by a deleteProduct that answers 200 for its id.
C3_FreshId ==
    [][/\ (last'.op = "add" /\ last'.status = 201)
            => /\ last'.out.id \notin DOMAIN products
               /\ Size(products') = Size(products) + 1
       /\ \A id \in DOMAIN products \ DOMAIN products' :
            /\ last'.op = "delete"
            /\ last'.status = 200
            /\ last'.body.productId = Num(id)]_vars

\* C4.  Whenever deleteProduct answers an admin whose productId is the key of
\* a product in the store: the status is 200, that product is gone, every
\* other product is as it was, and getProductById on that id answers 404.
\* getProductById keeps answering 404 for an id that no product holds, and an
\* id comes to be held only by an addProduct that answers 201 with that id.
C4_Delete ==
    /\ [](\A id \in (1..MaxOps) \ DOMAIN products :
            GetProductByIdResponse(products, files, PathOf(id)).status = 404)
    /\ [][/\ (/\ last'.op = "delete"
              /\ last'.auth = "admin"
              /\ ProductsHas(products, last'.body.productId))
             => LET id == last'.body.productId[2]
                IN  /\ last'.status = 200
                    /\ DOMAIN products' = DOMAIN products \ {id}
                    /\ \A k \in DOMAIN products' : products'[k] = products[k]
                    /\ GetProductByIdResponse(products', files',
                                              PathOf(id)).status = 404
          /\ \A id \in DOMAIN products' \ DOMAIN products :
               /\ last'.op = "add"
               /\ last'.status = 201
               /\ last'.out.id = id]_vars

\* C4, witness: a product was deleted with 200 while another one stayed, and
\* getProductById on the deleted id answers 404.
C4_Witness ==
    /\ last.op = "delete"
    /\ last.status = 200
    /\ DOMAIN products # {}
    /\ GetProductByIdResponse(products, files,
                              PathOf(last.body.productId[2])).status = 404

\* C5.  Whenever deleteProduct answers an admin whose productId is not empty
\* and is the key of no product in the store, the status is 404 and the
\* products map is as it was.
C5_DeleteMissing ==
    [][(/\ last'.op = "delete"
        /\ last'.auth = "admin"
        /\ Truthy(last'.body.productId)
        /\ ~ProductsHas(products, last'.body.productId))
       => /\ last'.status = 404
          /\ products' = products]_vars

\* C5, witness: deleting id 9999 from a store that holds products was answered
\* with 404.
C5_Witness ==
    /\ last.op = "delete"
    /\ last.auth = "admin"
    /\ last.status = 404
    /\ last.body.productId = Num(9999)
    /\ DOMAIN products # {}

C7_SizeReadAtomic ==
    /\ [](\A r \in Slots :
            req[r].pc = "set" => req[r].newProductId = Size(products) + 1)
    /\ [][(/\ last'.op = "add"
           /\ last'.status = 201
           /\ DOMAIN products = 1..Size(products))
          => /\ last'.out.id = Size(products) + 1
             /\ last'.out.id \notin DOMAIN products
             /\ Size(products') = Size(products) + 1]_vars

\* C7 as stated: once an addProduct request has read products.size, the thread
\* is free for the other requests before its products.set.
C7_SizeReadRaces ==
    \A r \in Slots : req[r].pc = "set" => running = NoReq

\* C7, witness: an admin addProduct has read products.size while another
\* addProduct is suspended at its await of json().
C7_Witness ==
    \E r, q \in Slots :
        /\ r # q
        /\ req[r].pc = "set"
        /\ req[q].kind = "add"
        /\ req[q].pc = "json"

\* C8.  Whenever getProductById answers: a path parameter that is not an
\* integer literal gets 400, an integer literal that is the id of no product
\* gets 404, and in both cases the products map is as it was.
C8_GetByIdRejects ==
    [][last'.op = "getProductById" =>
        LET s == last'.body[2]
        IN  /\ ~IsIntegerLiteral(s) => last'.status = 400 /\ products' = products
            /\ (IsIntegerLiteral(s) /\ IntegerOf(s) \notin DOMAIN products)
                  => last'.status = 404 /\ products' = products]_vars

\* C9.  Whenever addProduct, updateProduct or deleteProduct answers with a
\* status that is not 200 or 201, every product record is as it was.
C9_FailureKeepsStore ==
    [][(last'.op \in Mutating /\ last'.status \notin {200, 201})
       => products' = products]_vars

\* C10.  Every product's imageUrl names a file of the upload directory, so
\* getProducts answers 200.
C10_ImagesPresent ==
    /\ \A k \in DOMAIN products : products[k].imageUrl \in DOMAIN files
    /\ GetProductsResponse(products, files).status = 200

============================================================================
